---- MODULE Spec2Model ----
(***************************************************************************)
(* Model of tempy/widgets.py: the TempyTable grid widget (populate, clear, *)
(* add_row, pop_row, pop_cell, header/footer/caption, class tagging,       *)
(* function mapping, scope promotion) and the TempyList builder.           *)
(*                                                                         *)
(* A tag node is a record; its ordered children are the field childs.      *)
(* A body row is [klass, childs], a body cell is [tag, childs, klass,      *)
(* scope] where klass/scope = "" stands for an attribute that is not set.  *)
(* Python's None is the string None; an exception is named by its class.   *)
(***************************************************************************)
EXTENDS Integers, Sequences, FiniteSets, TLC

VARIABLES body, heads, foots, header, footer, caption, last, tree, ncalls

vars == <<body, heads, foots, header, footer, caption, last, tree, ncalls>>

\* ---------------------------------------------------------------- bounds
MaxRows == 2
MaxCols == 2
MaxParts == 2
MaxCalls == 2
MaxItems == 3

\* ---------------------------------------------------------------- values
None == "None"
Vals == {"a", "b"}
OptVals == Vals \cup {None}
OK == "ok"

SeqsUpTo(S, n) == UNION {[1..k -> S] : k \in 0..n}

Max(a, b) == IF a >= b THEN a ELSE b

RECURSIVE MaxLen(_)
\* max(map(len, rows)) over a non-empty sequence of sequences
MaxLen(rows) ==
    IF Len(rows) = 1 THEN Len(rows[1])
    ELSE Max(Len(rows[1]), MaxLen(Tail(rows)))

RowsOf(b) == [i \in 1..Len(b) |-> b[i].childs]

\* ------------------------------------------------------- node primitives
\* Td() / Th() holding the given children
NewCell(tag, kids) == [tag |-> tag, childs |-> kids, klass |-> "", scope |-> ""]
\* Tr() holding the given cells
NewRow(cells) == [klass |-> "", childs |-> cells]
\* node(child): a None child is not inserted, any other value is appended
Insert(kids, v) == IF v = None THEN kids ELSE Append(kids, v)
\* node.empty(): drops the children, keeps the node and its attributes
EmptyNode(n) == [n EXCEPT !.childs = <<>>]
\* list.pop(i) on a 1-based sequence
RemoveAt(s, i) == [j \in 1..(Len(s) - 1) |-> IF j < i THEN s[j] ELSE s[j + 1]]
\* AdjustableList(d_row).ljust(n, None)
ljust(d_row, n) ==
    [j \in 1..Max(Len(d_row), n) |-> IF j <= Len(d_row) THEN d_row[j] ELSE None]

\* ---------------------------------------------------------------- populate
\* TempyTable._check_row_size, given the length: TRUE when it raises
check_row_size(b, row_length) ==
    /\ b # <<>>
    /\ MaxLen(RowsOf(b)) < row_length

\* The inner loop of populate: zip_longest(t_row, d_row).  A cell that is
\* missing (t_cell is None) is created only when resize_x; otherwise
\* t_cell.empty() is called on None, an AttributeError, after the existing
\* cells were rewritten.
CellLoop(cells, d_row, resize_x) ==
    LET n == Max(Len(cells), Len(d_row))
        val(j) == IF j <= Len(d_row) THEN d_row[j] ELSE None
        old(j) == [EmptyNode(cells[j]) EXCEPT !.childs = Insert(@, val(j))]
        new(j) == NewCell("Td", Insert(<<>>, val(j)))
    IN  IF ~resize_x /\ Len(d_row) > Len(cells)
        THEN [childs |-> [j \in 1..Len(cells) |-> old(j)], err |-> "AttributeError"]
        ELSE [childs |-> [j \in 1..n |-> IF j <= Len(cells) THEN old(j) ELSE new(j)],
              err |-> OK]

RECURSIVE RowLoop(_, _, _, _, _, _, _, _)
\* The outer loop of populate: zip_longest(self.body, data).  i is the
\* position the list iterator of self.body reads next; done says that it is
\* exhausted (zip_longest never asks it again); k is the next data row.
RowLoop(b, i, done, data, k, mx, resize_x, normalize) ==
    LET hasT == ~done /\ i <= Len(b)
        hasD == k <= Len(data)
        d_row == IF hasD THEN data[k] ELSE <<>>
    IN  IF ~hasT /\ ~hasD THEN [body |-> b, err |-> OK]
        ELSE IF d_row = <<>>
        THEN \* not d_row: t_row.remove()
             IF ~hasT THEN [body |-> b, err |-> "AttributeError"]
             ELSE RowLoop(RemoveAt(b, i), i + 1, FALSE, data, k + 1,
                          mx, resize_x, normalize)
        ELSE LET b1 == IF hasT THEN b ELSE Append(b, NewRow(<<>>))
                 at == IF hasT THEN i ELSE Len(b1)
                 d == IF normalize THEN ljust(d_row, mx) ELSE d_row
                 r == CellLoop(b1[at].childs, d, resize_x)
                 b2 == [b1 EXCEPT ![at].childs = r.childs]
             IN  IF r.err # OK THEN [body |-> b2, err |-> r.err]
                 ELSE RowLoop(b2, i + 1, ~hasT, data, k + 1,
                              mx, resize_x, normalize)

\* TempyTable.clear: self.body.empty()
clear(b) == <<>>

\* populate without the clear of line 134 (a plausible slip)
populateNoClear(b, data, resize_x, normalize) ==
    IF data = <<>> THEN [body |-> b, err |-> "ValueError"]
    ELSE LET mx == MaxLen(data)
         IN  IF ~resize_x /\ check_row_size(b, mx)
             THEN [body |-> b, err |-> "WidgetDataError"]
             ELSE RowLoop(b, 1, FALSE, data, 1, mx, resize_x, normalize)

\* TempyTable.populate for data that is not None
populate(b, data, resize_x, normalize) ==
    LET b0 == clear(b)
    IN  IF data = <<>>
        THEN \* max(map(len, data)) of an empty sequence
             [body |-> b0, err |-> "ValueError"]
        ELSE LET mx == MaxLen(data)
             IN  IF ~resize_x /\ check_row_size(b0, mx)
                 THEN [body |-> b0, err |-> "WidgetDataError"]
                 ELSE RowLoop(b0, 1, FALSE, data, 1, mx, resize_x, normalize)

\* ------------------------------------------------------- add_row / pop_*
\* add_row that fills the row from the last value to the first
add_rowReversed(b, row_data, resize_x) ==
    LET n == Len(row_data)
    IN  [body |-> Append(b, NewRow([j \in 1..n |->
                                NewCell("Td", Insert(<<>>, row_data[n + 1 - j]))])),
         err |-> OK]

\* TempyTable.add_row
add_row(b, row_data, resize_x) ==
    IF ~resize_x /\ check_row_size(b, Len(row_data))
    THEN [body |-> b, err |-> "WidgetDataError"]
    ELSE [body |-> Append(b, NewRow([j \in 1..Len(row_data) |->
                                       NewCell("Td", Insert(<<>>, row_data[j]))])),
          err |-> OK]

\* [cell.childs[0] for cell in row]: fails on a cell without content
FirstChilds(row) ==
    IF \E j \in 1..Len(row.childs) : row.childs[j].childs = <<>>
    THEN [ret |-> <<>>, err |-> "IndexError"]
    ELSE [ret |-> [j \in 1..Len(row.childs) |-> row.childs[j].childs[1]], err |-> OK]

\* TempyTable.pop_row with tags=False; idr = -1 is what the default
\* len(self.body) - 1 gives on an empty body, other negative indices are not
\* modelled
pop_row(b, idr) ==
    IF idr < 0 \/ idr >= Len(b)
    THEN [body |-> b, ret |-> <<>>, err |-> "IndexError"]
    ELSE LET r == FirstChilds(b[idr + 1])
         IN  [body |-> RemoveAt(b, idr + 1), ret |-> r.ret, err |-> r.err]

\* TempyTable.pop_cell with the default arguments and tags=False
pop_cell(b) ==
    IF b = <<>> \/ b[Len(b)].childs = <<>>
    THEN [body |-> b, ret |-> <<>>, err |-> "IndexError"]
    ELSE LET row == b[Len(b)]
             n == Len(row.childs)
             cell == row.childs[n]
             b1 == [b EXCEPT ![Len(b)].childs = RemoveAt(row.childs, n)]
         IN  IF cell.childs = <<>>
             THEN [body |-> b1, ret |-> <<>>, err |-> "IndexError"]
             ELSE [body |-> b1, ret |-> <<cell.childs[1]>>, err |-> OK]

\* ------------------------------------------------- bounds of an index
\* TempyTable.is_row_within_bounds: FALSE stands for the WidgetDataError
is_row_within_bounds(b, row_index) == row_index >= 0 /\ row_index < Len(b)

\* TempyTable.is_col_within_bounds: FALSE stands for the WidgetDataError
is_col_within_bounds(col_index, row) ==
    col_index >= 0 /\ col_index < Len(row.childs)

\* the rows of b at which the column check of a loop over the rows raises
BadRows(b, col_index) ==
    {i \in 1..Len(b) : ~is_col_within_bounds(col_index, b[i])}

Min(S) == CHOOSE x \in S : \A y \in S : x <= y

\* ------------------------------------------------ col_class / row_class
\* TempyTable.col_class; given = FALSE stands for col_index=None
col_class(b, css_class, given, col_index) ==
    IF ~given
    THEN [body |-> [i \in 1..Len(b) |->
                      [b[i] EXCEPT !.childs =
                         [j \in 1..Len(b[i].childs) |->
                            [b[i].childs[j] EXCEPT !.klass = css_class]]]],
          err |-> OK]
    ELSE LET bad == BadRows(b, col_index)
             stop == IF bad = {} THEN Len(b) + 1 ELSE Min(bad)
             c == col_index + 1
         IN  [body |-> [i \in 1..Len(b) |->
                          IF i < stop /\ b[i].childs[c].childs # <<>>
                          THEN [b[i] EXCEPT !.childs[c].klass = css_class]
                          ELSE b[i]],
              err |-> IF bad = {} THEN OK ELSE "WidgetDataError"]

\* TempyTable.row_class; given = FALSE stands for row_index=None
row_class(b, css_class, given, row_index) ==
    IF ~given
    THEN [body |-> [i \in 1..Len(b) |-> [b[i] EXCEPT !.klass = css_class]],
          err |-> OK]
    ELSE IF is_row_within_bounds(b, row_index)
    THEN [body |-> [b EXCEPT ![row_index + 1].klass = css_class], err |-> OK]
    ELSE [body |-> b, err |-> "WidgetDataError"]

\* ------------------------------------------------------------- map_*
\* A function given to map_*: it raises on the values in fn and turns every
\* other value into the other value of Vals.
Fns == {{}, {"b"}}
Swap(v) == IF v = "a" THEN "b" ELSE "a"

\* cell.apply_function(fn) on a cell whose content does not make fn raise
ApplyFn(cell) == [cell EXCEPT !.childs = [k \in 1..Len(cell.childs) |->
                                            Swap(cell.childs[k])]]

Raises(fn, cell) == \E k \in 1..Len(cell.childs) : cell.childs[k] \in fn

\* TempyTable.apply_function_to_cells over the non-empty cells of one row:
\* one try block around the whole loop, so the first cell on which fn raises
\* ends the loop; raised says whether the exception leaves the method.
apply_function_to_cells(row, fn, ignore_errors) ==
    LET bad == {j \in 1..Len(row.childs) : Raises(fn, row.childs[j])}
        stop == IF bad = {} THEN Len(row.childs) + 1 ELSE Min(bad)
    IN  [row |-> [row EXCEPT !.childs =
                    [j \in 1..Len(row.childs) |->
                       IF j < stop THEN ApplyFn(row.childs[j])
                       ELSE row.childs[j]]],
         raised |-> bad # {} /\ ~ignore_errors]

\* apply_function_to_cells with the try block around each cell
apply_function_to_cellsEach(row, fn, ignore_errors) ==
    [row |-> [row EXCEPT !.childs =
                [j \in 1..Len(row.childs) |->
                   IF Raises(fn, row.childs[j]) THEN row.childs[j]
                   ELSE ApplyFn(row.childs[j])]],
     raised |-> FALSE]

\* TempyTable.map_table: row after row; an exception that leaves
\* apply_function_to_cells ends the loop over the rows
map_table(b, fn, ignore_errors) ==
    LET res == [i \in 1..Len(b) |-> apply_function_to_cells(b[i], fn, ignore_errors)]
        bad == {i \in 1..Len(b) : res[i].raised}
        stop == IF bad = {} THEN Len(b) ELSE Min(bad)
    IN  [body |-> [i \in 1..Len(b) |-> IF i <= stop THEN res[i].row ELSE b[i]],
         err |-> IF bad = {} THEN OK ELSE "FnError"]

\* TempyTable.map_col; given = FALSE stands for col_index=None, which maps
\* the whole table with map_table's default ignore_errors=True.  With an
\* index, the bounds check of the generator and fn run inside one try block
\* around the loop over the rows.
map_col(b, fn, given, col_index, ignore_errors) ==
    IF ~given THEN map_table(b, fn, TRUE)
    ELSE LET c == col_index + 1
             oob == BadRows(b, col_index)
             bad == oob \cup {i \in (1..Len(b)) \ oob : Raises(fn, b[i].childs[c])}
             stop == IF bad = {} THEN Len(b) + 1 ELSE Min(bad)
         IN  [body |-> [i \in 1..Len(b) |->
                          IF i < stop THEN [b[i] EXCEPT !.childs[c] = ApplyFn(@)]
                          ELSE b[i]],
              err |-> IF bad = {} \/ ignore_errors THEN OK
                      ELSE IF stop \in oob THEN "WidgetDataError" ELSE "FnError"]

\* TempyTable.map_row; given = FALSE stands for row_index=None
map_row(b, fn, given, row_index, ignore_errors) ==
    IF ~given THEN map_table(b, fn, TRUE)
    ELSE IF ~is_row_within_bounds(b, row_index)
    THEN [body |-> b, err |-> "WidgetDataError"]
    ELSE LET r == apply_function_to_cells(b[row_index + 1], fn, ignore_errors)
         IN  [body |-> [b EXCEPT ![row_index + 1] = r.row],
              err |-> IF r.raised THEN "FnError" ELSE OK]

\* -------------------------------------------------------- make_scope
RECURSIVE apply_scope(_, _, _, _)
\* TempyTable.apply_scope from the k-th pair of scope_list on: the bounds
\* are checked as each pair is reached; a non-empty cell is replaced by a Th
\* holding its first child, with a copy of its attributes and the scope.
apply_scope(b, scope_list, k, scope_tag) ==
    IF k > Len(scope_list) THEN [body |-> b, err |-> OK]
    ELSE LET r == scope_list[k][1]
             c == scope_list[k][2]
         IN  IF ~is_row_within_bounds(b, r) THEN [body |-> b, err |-> "WidgetDataError"]
             ELSE IF ~is_col_within_bounds(c, b[r + 1])
             THEN [body |-> b, err |-> "WidgetDataError"]
             ELSE LET cell == b[r + 1].childs[c + 1]
                      th == [tag |-> "Th", childs |-> <<cell.childs[1]>>,
                             klass |-> cell.klass, scope |-> scope_tag]
                  IN  IF cell.childs = <<>>
                      THEN apply_scope(b, scope_list, k + 1, scope_tag)
                      ELSE apply_scope([b EXCEPT ![r + 1].childs[c + 1] = th],
                                       scope_list, k + 1, scope_tag)

\* TempyTable.make_scope; an empty list stands for None as well
make_scope(b, col_scope_list, row_scope_list) ==
    LET r1 == IF col_scope_list # <<>> THEN apply_scope(b, col_scope_list, 1, "col")
              ELSE [body |-> b, err |-> OK]
    IN  IF r1.err # OK THEN r1
        ELSE IF row_scope_list # <<>> THEN apply_scope(r1.body, row_scope_list, 1, "row")
        ELSE r1

\* ------------------------------------------------------------ TempyList
\* A struct argument: t says what it is (none, scalar, list, dict); a scalar
\* has val, a list has its values in items, a dict has its entries [k, v] in
\* items, in insertion order, v being a struct again.
NoneS == [t |-> "none", val |-> None, items |-> <<>>]
ScalarS(v) == [t |-> "scalar", val |-> v, items |-> <<>>]
ListS(values) == [t |-> "list", val |-> None, items |-> values]
DictS(entries) == [t |-> "dict", val |-> None, items |-> entries]
TypKey == "_typ"
\* the names that tempy.tags resolves to a list tag
ListTags == {"Ul", "Ol", "Dl"}

HasTyp(struct) ==
    struct.t = "dict" /\ \E i \in 1..Len(struct.items) : struct.items[i].k = TypKey

RECURSIVE Without(_, _)
\* the entries of a dict without the key k
Without(entries, k) ==
    IF entries = <<>> THEN <<>>
    ELSE IF entries[1].k = k THEN Without(Tail(entries), k)
    ELSE <<entries[1]>> \o Without(Tail(entries), k)

\* struct.pop('_typ') of a dict that has the key
TypOf(struct) ==
    LET i == CHOOSE i \in 1..Len(struct.items) : struct.items[i].k = TypKey
    IN  struct.items[i].v.val

\* the choice of the list tag with the typ argument taken first
resolveArgFirst(typ, struct) ==
    LET t1 == IF typ # None THEN typ
              ELSE IF HasTyp(struct) THEN TypOf(struct) ELSE None
    IN  IF t1 # None /\ t1 \notin ListTags
        THEN [kind |-> None, err |-> "WidgetError"]
        ELSE [kind |-> IF t1 = None THEN "Ul" ELSE t1, err |-> OK]

\* TempyList.__new__, the choice of the list tag: the '_typ' key of a dict
\* replaces the typ argument; a name that is no tag is a WidgetError; what
\* is left falsy becomes Ul
resolve(typ, struct) ==
    LET t1 == IF HasTyp(struct) THEN TypOf(struct) ELSE typ
    IN  IF t1 # None /\ t1 \notin ListTags
        THEN [kind |-> None, err |-> "WidgetError"]
        ELSE [kind |-> IF t1 = None THEN "Ul" ELSE t1, err |-> OK]

RECURSIVE Dedup(_, _)
\* the keys of dict(zip_longest(struct, [None])), in order: a value that was
\* already seen is not a new key
Dedup(values, seen) ==
    IF values = <<>> THEN <<>>
    ELSE IF values[1] \in seen THEN Dedup(Tail(values), seen)
    ELSE <<values[1]>> \o Dedup(Tail(values), seen \cup {values[1]})

\* dict(zip_longest(struct, [None])): zip_longest runs to the longer of the
\* two, so an empty struct still gives the one pair (None, None)
ListToDict(values) ==
    LET keys == IF values = <<>> THEN <<None>> ELSE Dedup(values, {})
    IN  [i \in 1..Len(keys) |-> [k |-> keys[i], v |-> NoneS]]

\* the truth value of a submenu
Truthy(v) == v.t = "scalar" \/ (v.t \in {"list", "dict"} /\ v.items # <<>>)

Item(tag, content, sub) == [tag |-> tag, childs |-> Insert(<<>>, content), sub |-> sub]

\* the elements that "for elem in submenu" visits
Elems(v) ==
    IF v.t = "list" THEN v.items
    ELSE [i \in 1..Len(v.items) |-> v.items[i].k]

RECURSIVE TempyList(_, _)
RECURSIVE process_li_struct(_, _)
\* TempyListMeta.__process_li_struct: one Li per entry, and under it the
\* list built from a truthy value, with the tag of this list as typ
process_li_struct(kind, entries) ==
    IF entries = <<>> THEN [items |-> <<>>, err |-> OK]
    ELSE LET e == entries[1]
             sub == IF Truthy(e.v) THEN TempyList(kind, e.v)
                    ELSE [tree |-> <<>>, err |-> OK]
             rest == process_li_struct(kind, Tail(entries))
         IN  IF sub.err # OK THEN [items |-> <<>>, err |-> sub.err]
             ELSE IF rest.err # OK THEN rest
             ELSE [items |-> <<Item("Li", e.k, sub.tree)>> \o rest.items, err |-> OK]

RECURSIVE process_dl_struct(_)
\* TempyListMeta.__process_dl_struct: a Dt per entry, followed by a Dd per
\* element of a truthy value, or one Dd for a scalar
process_dl_struct(entries) ==
    IF entries = <<>> THEN <<>>
    ELSE LET e == entries[1]
             dds == IF ~Truthy(e.v) THEN <<>>
                    ELSE IF e.v.t = "scalar" THEN <<Item("Dd", e.v.val, <<>>)>>
                    ELSE [i \in 1..Len(Elems(e.v)) |-> Item("Dd", Elems(e.v)[i], <<>>)]
         IN  <<Item("Dt", e.k, <<>>)>> \o dds \o process_dl_struct(Tail(entries))

\* TempyListMeta.populate on an empty list node of the given tag
list_populate(kind, struct) ==
    IF struct.t = "none" THEN [items |-> <<>>, err |-> OK]
    ELSE IF struct.t = "scalar" THEN [items |-> <<>>, err |-> "WidgetDataError"]
    ELSE LET entries == IF struct.t = "list" THEN ListToDict(struct.items)
                        ELSE struct.items
         IN  IF kind = "Dl" THEN [items |-> process_dl_struct(entries), err |-> OK]
             ELSE process_li_struct(kind, entries)

\* TempyList(typ=typ, struct=struct): the result is <<the list node>>, or
\* <<>> with the exception that was raised
TempyList(typ, struct) ==
    LET r == resolve(typ, struct)
        popped == IF HasTyp(struct) THEN DictS(Without(struct.items, TypKey))
                  ELSE struct
    IN  IF r.err # OK THEN [tree |-> <<>>, err |-> r.err]
        ELSE LET p == list_populate(r.kind, popped)
             IN  IF p.err # OK THEN [tree |-> <<>>, err |-> p.err]
                 ELSE [tree |-> <<[kind |-> r.kind, items |-> p.items]>>, err |-> OK]

\* ------------------------------------------------------------ the record
\* of the last call: its name, arguments, outcome and what the claims need
\* of the state before it
NoCall ==
    [op |-> "init", err |-> OK, data |-> <<>>, row |-> <<>>, resize_x |-> TRUE,
     normalize |-> TRUE, pre |-> <<>>, cols |-> 0, ret |-> <<>>,
     chained |-> FALSE, head |-> FALSE, foot |-> FALSE, idx |-> 0,
     given |-> FALSE, ignore_errors |-> TRUE,
     fn |-> {}, kind |-> None, key |-> None]

Cols(b) == IF b = <<>> THEN 0 ELSE MaxLen(RowsOf(b))

DataRows == SeqsUpTo(OptVals, MaxCols)
\* the data given to populate and to the constructor: every rectangular
\* data of None and one value, and the ragged data of rows of one value
RectData ==
    UNION {[1..r -> [1..c -> {None, "a"}]] : r \in 0..MaxRows, c \in 0..MaxCols}
RaggedData == SeqsUpTo({[j \in 1..c |-> "b"] : c \in 0..MaxCols}, MaxRows)
DataSet == RectData \cup RaggedData

\* ------------------------------------------- header / footer / caption
\* Tr()(inner_tag()(col) for col in data)
PartRow(inner_tag, data) ==
    [j \in 1..Len(data) |-> NewCell(inner_tag, Insert(<<>>, data[j]))]

\* TempyTable._make_table_part: a new Thead/Tfoot is appended to the table
\* on every call; the attribute (header/footer) is bound to the first one
\* only.  A section is the sequence of its rows; attr is the position of the
\* bound section among the sections, 0 when the attribute is not set.
make_table_part(inner_tag, sections, attr, data) ==
    LET s1 == Append(sections, << PartRow(inner_tag, data) >>)
    IN  [sections |-> s1, attr |-> IF attr = 0 THEN Len(s1) ELSE attr]

\* TempyTable.make_header
make_header(sections, attr, head) == make_table_part("Th", sections, attr, head)

\* TempyTable.make_footer
make_footer(sections, attr, foot) == make_table_part("Td", sections, attr, foot)

\* TempyTable.make_caption: the Caption node is created once, then emptied
\* and given the text
make_caption(cap, text) == [has |-> TRUE, childs |-> Insert(<<>>, text)]

NoCaption == [has |-> FALSE, childs |-> <<>>]

\* TempyTable.__init__.  data = <<>> stands for a data argument that is
\* falsy (None or empty); the result is the table together with the
\* exception raised, if any, and the caller's data after the call.
construct(rows, cols, data, cap, head, foot) ==
    LET nhf == (IF head THEN 1 ELSE 0) + (IF foot THEN 1 ELSE 0)
        data1 == IF data = <<>>
                 THEN [i \in 1..(rows + nhf) |-> [j \in 1..cols |-> None]]
                 ELSE data
        rows1 == IF data = <<>> THEN rows ELSE Len(data)
        c1 == IF cap # None THEN make_caption(NoCaption, cap) ELSE NoCaption
        doHead == head /\ rows1 > 0
        h == IF doHead THEN make_header(<<>>, 0, data1[1])
             ELSE [sections |-> <<>>, attr |-> 0]
        t1 == IF doHead THEN Tail(data1) ELSE data1
        doFoot == foot /\ rows1 > 0
        base == [body |-> <<>>, heads |-> h.sections, header |-> h.attr,
                 foots |-> <<>>, footer |-> 0, caption |-> c1,
                 callerData |-> data, err |-> OK]
    IN  IF doFoot /\ t1 = <<>>
        THEN \* table_data.pop() of an empty list
             [base EXCEPT !.err = "IndexError"]
        ELSE LET f == IF doFoot THEN make_footer(<<>>, 0, t1[Len(t1)])
                      ELSE [sections |-> <<>>, attr |-> 0]
                 t2 == IF doFoot THEN SubSeq(t1, 1, Len(t1) - 1) ELSE t1
                 b1 == [base EXCEPT !.foots = f.sections, !.footer = f.attr]
             IN  IF data1 = <<>> THEN b1
                 ELSE LET r == populate(<<>>, t2, TRUE, TRUE)
                      IN  [b1 EXCEPT !.body = r.body, !.err = r.err]

PartRows == SeqsUpTo(Vals, MaxCols)

\* the state after TempyTable() and before any list is built
Init ==
    /\ body = <<>>
    /\ heads = <<>>
    /\ foots = <<>>
    /\ header = 0
    /\ footer = 0
    /\ caption = NoCaption
    /\ last = NoCall
    /\ tree = [kind |-> None, items |-> <<>>]
    /\ ncalls = 0


\* populate(data, resize_x, normalize) with the given flags
PopulateWith(resize_x, normalize) ==
    \E data \in DataSet :
        LET r == populate(body, data, resize_x, normalize)
        IN  /\ body' = r.body
            /\ last' = [NoCall EXCEPT !.op = "populate", !.err = r.err,
                          !.data = data, !.resize_x = resize_x,
                          !.normalize = normalize]
            /\ UNCHANGED <<heads, foots, header, footer, caption, tree, ncalls>>

Populate == \E resize_x \in BOOLEAN, normalize \in BOOLEAN : PopulateWith(resize_x, normalize)

\* populate(data): resize_x=True, normalize=True
PopulateDefault == PopulateWith(TRUE, TRUE)

\* populate(None): raises before anything is touched
PopulateNone ==
    /\ last' = [NoCall EXCEPT !.op = "populate_none", !.err = "WidgetDataError"]
    /\ UNCHANGED <<body, heads, foots, header, footer, caption, tree, ncalls>>

Clear ==
    /\ body' = clear(body)
    /\ last' = [NoCall EXCEPT !.op = "clear"]
    /\ UNCHANGED <<heads, foots, header, footer, caption, tree, ncalls>>

AddRow ==
    \E row_data \in DataRows, resize_x \in BOOLEAN :
        LET r == add_row(body, row_data, resize_x)
        IN  /\ Len(body) < MaxRows
            /\ body' = r.body
            /\ last' = [NoCall EXCEPT !.op = "add_row", !.err = r.err,
                          !.row = row_data, !.resize_x = resize_x, !.pre = body]
            /\ UNCHANGED <<heads, foots, header, footer, caption, tree, ncalls>>

\* pop_row(): chained records that it directly follows a successful add_row
PopRow ==
    LET r == pop_row(body, Len(body) - 1)
        ch == last.op = "add_row" /\ last.err = OK
    IN  /\ body' = r.body
        /\ last' = [NoCall EXCEPT !.op = "pop_row", !.err = r.err, !.ret = r.ret,
                      !.chained = ch,
                      !.row = IF ch THEN last.row ELSE <<>>,
                      !.pre = IF ch THEN last.pre ELSE <<>>]
        /\ UNCHANGED <<heads, foots, header, footer, caption, tree, ncalls>>

PopRowAt ==
    \E idr \in 0..MaxRows :
        LET r == pop_row(body, idr)
        IN  /\ body' = r.body
            /\ last' = [NoCall EXCEPT !.op = "pop_row_at", !.err = r.err,
                          !.ret = r.ret, !.idx = idr]
            /\ UNCHANGED <<heads, foots, header, footer, caption, tree, ncalls>>

PopCell ==
    LET r == pop_cell(body)
    IN  /\ body' = r.body
        /\ last' = [NoCall EXCEPT !.op = "pop_cell", !.err = r.err, !.ret = r.ret]
        /\ UNCHANGED <<heads, foots, header, footer, caption, tree, ncalls>>

Next ==
    \/ Populate
    \/ PopulateNone
    \/ Clear

\* populate, clear: the reconciliation of the body against new data
Spec == Init /\ [][Next]_vars

NextPopulate ==
    \/ PopulateDefault
    \/ PopCell
    \/ PopRow
    \/ Clear

\* populate(data) with the default flags, on the bodies that populate,
\* pop_cell (which leaves rows of different lengths), pop_row and clear
\* leave
SpecPopulate == Init /\ [][NextPopulate]_vars

NextRows ==
    \/ AddRow
    \/ PopRow
    \/ PopRowAt
    \/ PopCell
    \/ Clear

\* add_row, pop_row, pop_cell, clear: every body of Td cells is built by
\* add_row calls
SpecRows == Init /\ [][NextRows]_vars

MakeHeader ==
    \E head \in PartRows :
        LET r == make_header(heads, header, head)
        IN  /\ Len(heads) < MaxParts
            /\ heads' = r.sections
            /\ header' = r.attr
            /\ last' = [NoCall EXCEPT !.op = "make_header", !.row = head]
            /\ UNCHANGED <<body, foots, footer, caption, tree, ncalls>>

MakeFooter ==
    \E foot \in PartRows :
        LET r == make_footer(foots, footer, foot)
        IN  /\ Len(foots) < MaxParts
            /\ foots' = r.sections
            /\ footer' = r.attr
            /\ last' = [NoCall EXCEPT !.op = "make_footer", !.row = foot]
            /\ UNCHANGED <<body, heads, header, caption, tree, ncalls>>

MakeCaption ==
    \E text \in Vals :
        /\ caption' = make_caption(caption, text)
        /\ last' = [NoCall EXCEPT !.op = "make_caption", !.key = text]
        /\ UNCHANGED <<body, heads, header, foots, footer, tree, ncalls>>

\* TempyTable(data=data, caption=cap, head=head, foot=foot): __init__ runs
\* once, before any other call on the table
ConstructData ==
    \E data \in DataSet \ {<<>>}, cap \in {None, "a"}, head \in BOOLEAN,
       foot \in BOOLEAN :
        LET r == construct(0, 0, data, cap, head, foot)
        IN  /\ last.op = "init"
            /\ body' = r.body
            /\ heads' = r.heads
            /\ header' = r.header
            /\ foots' = r.foots
            /\ footer' = r.footer
            /\ caption' = r.caption
            /\ last' = [NoCall EXCEPT !.op = "construct", !.err = r.err,
                          !.data = data, !.pre = r.callerData,
                          !.head = head, !.foot = foot, !.key = cap]
            /\ UNCHANGED <<tree, ncalls>>

\* TempyTable(rows=rows, cols=cols, caption=cap, head=head, foot=foot)
ConstructSize ==
    \E rows \in 0..MaxRows, cols \in 0..MaxCols, cap \in {None, "a"},
       head \in BOOLEAN, foot \in BOOLEAN :
        LET r == construct(rows, cols, <<>>, cap, head, foot)
        IN  /\ last.op = "init"
            /\ body' = r.body
            /\ heads' = r.heads
            /\ header' = r.header
            /\ foots' = r.foots
            /\ footer' = r.footer
            /\ caption' = r.caption
            /\ last' = [NoCall EXCEPT !.op = "construct_size", !.err = r.err,
                          !.idx = rows, !.cols = cols,
                          !.head = head, !.foot = foot, !.key = cap]
            /\ UNCHANGED <<tree, ncalls>>

NextParts ==
    \/ MakeHeader
    \/ MakeFooter
    \/ MakeCaption

\* make_header, make_footer, make_caption on a table built by TempyTable()
SpecParts == Init /\ [][NextParts]_vars

NextConstruct ==
    \/ ConstructData
    \/ ConstructSize

\* the constructor, with every small combination of arguments
SpecConstruct == Init /\ [][NextConstruct]_vars

\* the indices given to the indexed operations: one below and one above
\* the valid ones
RowIdx == -1..MaxRows
ColIdx == -1..MaxCols
ScopeLists == SeqsUpTo((0..MaxRows) \X (0..MaxCols), 1)

ColClass ==
    \E given \in BOOLEAN, col_index \in ColIdx :
        LET r == col_class(body, "x", given, col_index)
        IN  /\ ncalls < MaxCalls
            /\ ncalls' = ncalls + 1
            /\ body' = r.body
            /\ last' = [NoCall EXCEPT !.op = "col_class", !.err = r.err,
                          !.given = given, !.idx = col_index, !.pre = body]
            /\ UNCHANGED <<heads, foots, header, footer, caption, tree>>

RowClass ==
    \E given \in BOOLEAN, row_index \in RowIdx :
        LET r == row_class(body, "x", given, row_index)
        IN  /\ ncalls < MaxCalls
            /\ ncalls' = ncalls + 1
            /\ body' = r.body
            /\ last' = [NoCall EXCEPT !.op = "row_class", !.err = r.err,
                          !.given = given, !.idx = row_index, !.pre = body]
            /\ UNCHANGED <<heads, foots, header, footer, caption, tree>>

MapCol ==
    \E fn \in Fns, given \in BOOLEAN, col_index \in ColIdx, ignore_errors \in BOOLEAN :
        LET r == map_col(body, fn, given, col_index, ignore_errors)
        IN  /\ ncalls < MaxCalls
            /\ ncalls' = ncalls + 1
            /\ body' = r.body
            /\ last' = [NoCall EXCEPT !.op = "map_col", !.err = r.err, !.fn = fn,
                          !.given = given, !.idx = col_index,
                          !.ignore_errors = ignore_errors, !.pre = body]
            /\ UNCHANGED <<heads, foots, header, footer, caption, tree>>

MapRow ==
    \E fn \in Fns, given \in BOOLEAN, row_index \in RowIdx, ignore_errors \in BOOLEAN :
        LET r == map_row(body, fn, given, row_index, ignore_errors)
        IN  /\ ncalls < MaxCalls
            /\ ncalls' = ncalls + 1
            /\ body' = r.body
            /\ last' = [NoCall EXCEPT !.op = "map_row", !.err = r.err, !.fn = fn,
                          !.given = given, !.idx = row_index,
                          !.ignore_errors = ignore_errors, !.pre = body]
            /\ UNCHANGED <<heads, foots, header, footer, caption, tree>>

MapTable ==
    \E fn \in Fns, ignore_errors \in BOOLEAN :
        LET r == map_table(body, fn, ignore_errors)
        IN  /\ ncalls < MaxCalls
            /\ ncalls' = ncalls + 1
            /\ body' = r.body
            /\ last' = [NoCall EXCEPT !.op = "map_table", !.err = r.err, !.fn = fn,
                          !.ignore_errors = ignore_errors, !.pre = body]
            /\ UNCHANGED <<heads, foots, header, footer, caption, tree>>

MakeScope ==
    \E col_scope_list \in ScopeLists, row_scope_list \in ScopeLists :
        LET r == make_scope(body, col_scope_list, row_scope_list)
        IN  /\ ncalls < MaxCalls
            /\ ncalls' = ncalls + 1
            /\ body' = r.body
            /\ last' = [NoCall EXCEPT !.op = "make_scope", !.err = r.err,
                          !.data = <<col_scope_list, row_scope_list>>, !.pre = body]
            /\ UNCHANGED <<heads, foots, header, footer, caption, tree>>

NextMap ==
    \/ AddRow
    \/ ColClass
    \/ RowClass
    \/ MapCol
    \/ MapRow
    \/ MapTable
    \/ MakeScope

\* class tagging, function mapping and scope promotion on bodies built by
\* add_row; ncalls counts these calls and MaxCalls bounds them
SpecMap == Init /\ [][NextMap]_vars

\* ------------------------------------------------- the list builder
TypArgs == {None, "Ul", "Ol", "Dl", "Xx"}
\* the values of a dict entry: nothing, a scalar, a list, a dict, a dict
\* with its own '_typ'
SubStructs ==
    {NoneS, ScalarS("a"), ListS(<<"a", "b">>),
     DictS(<< [k |-> "a", v |-> NoneS] >>),
     DictS(<< [k |-> TypKey, v |-> ScalarS("Ol")], [k |-> "b", v |-> NoneS] >>)}
Entries ==
    {[k |-> k, v |-> v] : k \in Vals, v \in SubStructs}
      \cup {[k |-> TypKey, v |-> IF t = None THEN NoneS ELSE ScalarS(t)] : t \in TypArgs}
\* the dicts: entries with distinct keys
Dicts ==
    {d \in SeqsUpTo(Entries, 2) :
        \A i, j \in 1..Len(d) : i # j => d[i].k # d[j].k}
Lists == SeqsUpTo(Vals, MaxItems)

\* TempyList(typ, struct) with a list; the list node is kept in tree
BuildList ==
    \E typ \in TypArgs, values \in Lists :
        LET r == TempyList(typ, ListS(values))
        IN  /\ last.op = "init"
            /\ tree' = IF r.err = OK THEN r.tree[1] ELSE tree
            /\ last' = [NoCall EXCEPT !.op = "build_list", !.err = r.err,
                          !.kind = typ, !.row = values]
            /\ UNCHANGED <<body, heads, foots, header, footer, caption, ncalls>>

\* TempyList(typ, struct) with a dict
BuildDict ==
    \E typ \in TypArgs, d \in Dicts :
        LET r == TempyList(typ, DictS(d))
        IN  /\ last.op = "init"
            /\ tree' = IF r.err = OK THEN r.tree[1] ELSE tree
            /\ last' = [NoCall EXCEPT !.op = "build_dict", !.err = r.err,
                          !.kind = typ, !.data = d]
            /\ UNCHANGED <<body, heads, foots, header, footer, caption, ncalls>>

\* TempyList(typ) and TempyList(typ, struct) with a scalar struct
BuildOther ==
    \E typ \in TypArgs, struct \in {NoneS, ScalarS("a")} :
        LET r == TempyList(typ, struct)
        IN  /\ last.op = "init"
            /\ tree' = IF r.err = OK THEN r.tree[1] ELSE tree
            /\ last' = [NoCall EXCEPT !.op = "build_other", !.err = r.err,
                          !.kind = typ, !.key = struct.t]
            /\ UNCHANGED <<body, heads, foots, header, footer, caption, ncalls>>

NextList ==
    \/ BuildList
    \/ BuildDict
    \/ BuildOther

\* one call of the TempyList factory, with every small pair of arguments
SpecList == Init /\ [][NextList]_vars

\* ------------------------------------------------------------------ C1
IsRect(data) ==
    /\ Len(data) >= 1
    /\ Len(data[1]) >= 1
    /\ \A i \in 1..Len(data) : Len(data[i]) = Len(data[1])

\* the content of a cell that was given the value v
ContentOf(v) == IF v = None THEN <<>> ELSE <<v>>

\* C1: populate(data, resize_x=True, normalize=True) with rectangular data
\* of R >= 1 rows of C >= 1 values succeeds from any body and leaves
\* exactly R rows of exactly C cells, cell (i, j) holding data[i][j] alone,
\* or nothing when data[i][j] is None.
C1_PopulateRect ==
    (last.op = "populate" /\ last.resize_x /\ last.normalize /\ IsRect(last.data))
    => /\ last.err = OK
       /\ Len(body) = Len(last.data)
       /\ \A i \in 1..Len(body) :
            /\ Len(body[i].childs) = Len(last.data[1])
            /\ \A j \in 1..Len(body[i].childs) :
                 body[i].childs[j].childs = ContentOf(last.data[i][j])

\* a 2x2 populate with values and a None
C1_Witness ==
    /\ last.op = "populate" /\ last.resize_x /\ last.normalize
    /\ last.data = << <<"a", None>>, <<"a", "a">> >>
    /\ Len(body) = 2
    /\ body[1].childs[2].childs = <<>>
    /\ body[2].childs[2].childs = <<"a">>

\* ------------------------------------------------------------------ C2
\* C2: populate(data, resize_x=False) raises WidgetDataError whenever the
\* longest row of data is longer than the column count the body had at the
\* call.
C2_PopulateNoResizeRaises ==
    [][(/\ last'.op = "populate" /\ ~last'.resize_x
        /\ last'.data # <<>> /\ MaxLen(last'.data) > Cols(body))
       => last'.err = "WidgetDataError"]_vars

\* ------------------------------------------------------------------ C4
\* C4: populate([]) succeeds from any body and leaves the body without
\* rows (header, footer and caption are not touched by populate).
C4_PopulateEmpty ==
    (last.op = "populate" /\ last.data = <<>>)
    => /\ last.err = OK
       /\ body = <<>>

\* ------------------------------------------------------------------ C10
AllValues(row) == \A j \in 1..Len(row) : row[j] # None

\* C10: add_row(row) with a non-empty row of non-None values, directly
\* followed by pop_row(), returns the values of row in order and leaves the
\* body as it was before the add_row.
C10_AddThenPop ==
    (/\ last.op = "pop_row" /\ last.chained
     /\ last.row # <<>> /\ AllValues(last.row))
    => /\ last.err = OK
       /\ last.ret = last.row
       /\ body = last.pre

\* a two-value row added to, and popped from, a body that had a row
C10_Witness ==
    /\ last.op = "pop_row" /\ last.chained
    /\ last.row = <<"a", "b">>
    /\ last.ret = <<"a", "b">>
    /\ Len(last.pre) >= 1
    /\ body = last.pre

\* ------------------------------------------------------------------ C3
\* the values held by the cells of a header/footer row
RowValues(row) == [j \in 1..Len(row) |-> row[j].childs]
Contents(values) == [j \in 1..Len(values) |-> ContentOf(values[j])]

\* C3: after make_header the table holds exactly one header section with
\* exactly one row, whose cells hold the values of that call; the same for
\* make_footer and the footer.
C3_OnePartRow ==
    /\ last.op = "make_header"
         => /\ Len(heads) = 1
            /\ Len(heads[1]) = 1
            /\ RowValues(heads[1][1]) = Contents(last.row)
    /\ last.op = "make_footer"
         => /\ Len(foots) = 1
            /\ Len(foots[1]) = 1
            /\ RowValues(foots[1][1]) = Contents(last.row)

\* ------------------------------------------------------------------ C9
\* the rows of data that remain for the body
BodyData(data, head, foot) ==
    LET t1 == IF head THEN Tail(data) ELSE data
    IN  IF foot /\ t1 # <<>> THEN SubSeq(t1, 1, Len(t1) - 1) ELSE t1

\* C9: TempyTable(data, head, foot) with non-empty data (of rows that each
\* hold a value) succeeds; the header
\* holds the first row when head is set, the footer the last remaining row
\* when foot is set, the body the remaining rows in order (possibly none),
\* and the caller's data is unchanged.
C9_Construct ==
    (/\ last.op = "construct" /\ last.data # <<>>
     /\ \A i \in 1..Len(last.data) : last.data[i] # <<>>)
    => LET t1 == IF last.head THEN Tail(last.data) ELSE last.data
           rest == BodyData(last.data, last.head, last.foot)
       IN  /\ last.err = OK
           /\ last.head => /\ Len(heads) = 1
                           /\ RowValues(heads[1][1]) = Contents(last.data[1])
           /\ last.foot => /\ Len(foots) = 1
                           /\ t1 # <<>>
                           /\ RowValues(foots[1][1]) = Contents(t1[Len(t1)])
           /\ Len(body) = Len(rest)
           /\ \A i \in 1..Len(rest) : \A j \in 1..Len(rest[i]) :
                /\ j <= Len(body[i].childs)
                /\ body[i].childs[j].childs = ContentOf(rest[i][j])
           /\ last.pre = last.data

\* ------------------------------------------------------------------ C5
OutOf(i, count) == i < 0 \/ i >= count

\* C5: on a body with rows, col_class, row_class, map_col and map_row given
\* an index outside [0, count), and make_scope given a pair with such an
\* index, raise WidgetDataError, whatever their other arguments are.
C5_OutOfBoundsRaises ==
    /\ (/\ last.op \in {"col_class", "map_col"} /\ last.given
        /\ last.pre # <<>> /\ OutOf(last.idx, Cols(last.pre)))
         => last.err = "WidgetDataError"
    /\ (/\ last.op \in {"row_class", "map_row"} /\ last.given
        /\ last.pre # <<>> /\ OutOf(last.idx, Len(last.pre)))
         => last.err = "WidgetDataError"
    /\ (/\ last.op = "make_scope" /\ last.pre # <<>>
        /\ \E l \in 1..2 : \E k \in 1..Len(last.data[l]) :
              \/ OutOf(last.data[l][k][1], Len(last.pre))
              \/ OutOf(last.data[l][k][2], Cols(last.pre)))
         => last.err = "WidgetDataError"

\* ------------------------------------------------------------------ C6
\* the cell (i, j) of the body before the call had content on which the
\* function of the call does not raise
Mappable(i, j) ==
    /\ last.pre[i].childs[j].childs # <<>>
    /\ ~Raises(last.fn, last.pre[i].childs[j])

Mapped(i, j) ==
    /\ i <= Len(body)
    /\ j <= Len(body[i].childs)
    /\ body[i].childs[j].childs = ApplyFn(last.pre[i].childs[j]).childs

\* C6: with ignore_errors=True, map_col, map_row and map_table apply the
\* function to every non-empty cell of the column, the row or the table on
\* which it does not raise, the cells after a failing cell included.
C6_MapSkipsOnlyFailing ==
    LET whole == /\ last.ignore_errors
                 /\ \/ last.op = "map_table"
                    \/ last.op \in {"map_col", "map_row"} /\ ~last.given
        oneRow == /\ last.op = "map_row" /\ last.given /\ last.ignore_errors
                  /\ ~OutOf(last.idx, Len(last.pre))
        oneCol == last.op = "map_col" /\ last.given /\ last.ignore_errors
    IN  \A i \in 1..Len(last.pre) : \A j \in 1..Len(last.pre[i].childs) :
          (/\ \/ whole
              \/ oneRow /\ i = last.idx + 1
              \/ oneCol /\ j = last.idx + 1
           /\ Mappable(i, j))
          => Mapped(i, j)

\* ------------------------------------------------------------------ C7
IsBuild == last.op \in {"build_list", "build_dict", "build_other"}
\* the dict given to the call, when it has the '_typ' key
GivenTyp == last.op = "build_dict" /\ HasTyp(DictS(last.data))
OrUl(t) == IF t = None THEN "Ul" ELSE t

\* C7 as stated: the typ argument first, then the '_typ' key of a dict,
\* then Ul.
C7_ArgFirst ==
    (IsBuild /\ last.err = OK)
    => tree.kind = IF last.kind # None THEN last.kind
                   ELSE IF GivenTyp THEN OrUl(TypOf(DictS(last.data)))
                   ELSE "Ul"

\* C7 amended: the '_typ' key of a dict first (Ul when its value is None),
\* then the typ argument, then Ul; a name that is no list tag is a
\* WidgetError.
C7_KeyFirst ==
    IsBuild
    => LET t == IF GivenTyp THEN TypOf(DictS(last.data)) ELSE last.kind
       IN  IF t \notin ListTags \cup {None}
           THEN last.err = "WidgetError"
           ELSE last.err = OK => tree.kind = OrUl(t)

\* a dict with '_typ': 'Dl' built with typ='Ol' is a Dl
C7_Witness ==
    /\ last.op = "build_dict" /\ last.err = OK
    /\ last.kind = "Ol"
    /\ GivenTyp /\ TypOf(DictS(last.data)) = "Dl"
    /\ tree.kind = "Dl"

\* ------------------------------------------------------------------ C8
\* C8: TempyList(Ul, values) with a flat list of n >= 0 values, repeated
\* values allowed, has exactly n items, the i-th holding the i-th value,
\* none with a sublist.
C8_FlatList ==
    (last.op = "build_list" /\ last.kind \in {None, "Ul"})
    => /\ last.err = OK
       /\ tree.kind = "Ul"
       /\ Len(tree.items) = Len(last.row)
       /\ \A i \in 1..Len(tree.items) :
            /\ tree.items[i].tag = "Li"
            /\ tree.items[i].childs = <<last.row[i]>>
            /\ tree.items[i].sub = <<>>

====
